---- MODULE Spec2Model ----
(***************************************************************************)
(* Model of src/api/BaseDB.py (class BaseDynamoDBAbstraction) and          *)
(* src/api/Exceptions.py: a key-schema-agnostic data-access layer over a   *)
(* DynamoDB table.  A Python value is a pair <<type name, payload>>; a     *)
(* dict is a function from attribute names to values; a list is a          *)
(* sequence; the payload of a str is a sequence of one-character strings.  *)
(***************************************************************************)
EXTENDS Integers, Sequences, FiniteSets, TLC

VARIABLES handle, store, defaultItem, last, nops

vars == <<handle, store, defaultItem, last, nops>>

(***************************************************************************)
(* Bounds of the model.                                                    *)
(***************************************************************************)
\* partition key values range over 0..MaxKey
MaxKey == 1
\* number of operations in one behaviour
MaxOps == 2
\* longest pk_list / sk_list handed to batch_get_by_key
MaxBatch == 2

(***************************************************************************)
(* Python values.                                                          *)
(***************************************************************************)
TypeOf(x) == x[1]
ValueOf(x) == x[2]
None == <<"NoneType", 0>>
PyInt(n) == <<"int", n>>
PyBool(b) == <<"bool", b>>
\* s is a sequence of characters
PyStr(s) == <<"str", s>>
\* a float is a dyadic rational: q counts quarters
PyFloat(q) == <<"float", q>>
\* a Decimal is a decimal fraction: h counts hundredths
PyDecimal(h) == <<"Decimal", h>>
\* b is a sequence of byte values
PyBytes(b) == <<"bytes", b>>
\* l is a sequence of values
PyList(l) == <<"list", l>>
\* the builtin type object `bytes`
BytesType == <<"type", "bytes">>
EmptyDict == [a \in {} |-> None]

\* outcome of a call: it returns a value or raises
NoExc == [kind |-> "none"]
Return(x) == [exc |-> NoExc, val |-> x]
Raise(e) == [exc |-> e, val |-> None]

(***************************************************************************)
(* Exceptions.py: the typed failures, each with its default status code.   *)
(***************************************************************************)
NotImplementedError == [kind |-> "NotImplementedError", code |-> 501]
NotFoundError == [kind |-> "NotFoundError", code |-> 404]
MissingParameter == [kind |-> "MissingParameter", code |-> 400]
InvalidParameter == [kind |-> "InvalidParameter", code |-> 400]
InvalidMethodError == [kind |-> "InvalidMethodError", code |-> 405]
ServerError == [kind |-> "ServerError", code |-> 500]

\* failures of the interpreter, the standard library and the store client
ValueError == [kind |-> "ValueError"]
TypeError == [kind |-> "TypeError"]
KeyError == [kind |-> "KeyError"]
UnboundLocalError == [kind |-> "UnboundLocalError"]
ClientError == [kind |-> "ClientError"]

\* transport status of a store response that is not an error
HTTP_OK == 200

(***************************************************************************)
(* __init__: the handle's fields, derived once from the table's key schema *)
(***************************************************************************)
Tables == {"Movies", "Tickets"}

TableKeySchema(tb) ==
    IF tb = "Movies"
    THEN << [AttributeName |-> "movie_id", KeyType |-> "HASH"] >>
    ELSE << [AttributeName |-> "user_id", KeyType |-> "HASH"],
            [AttributeName |-> "seat", KeyType |-> "RANGE"] >>

NewHandle(tb) ==
    LET key_schema == TableKeySchema(tb)
        base == [verbose |-> FALSE, debug |-> FALSE, client |-> "client",
                 resource |-> "dynamodb", table |-> tb,
                 key_schema |-> key_schema,
                 partition_key |-> key_schema[1].AttributeName]
    IN IF Len(key_schema) = 2
       THEN base @@ [sort_key |-> key_schema[2].AttributeName]
       ELSE base

(***************************************************************************)
(* Helper functions                                                        *)
(***************************************************************************)
\* define_key_args without the check of the sort key
define_key_args_unchecked(self, pk_value, sk_value) ==
    IF Len(self.key_schema) = 2
    THEN Return([Key |-> (self.partition_key :> pk_value) @@ (self.sort_key :> sk_value)])
    ELSE Return([Key |-> (self.partition_key :> pk_value)])

define_key_args(self, pk_value, sk_value) ==
    LET arguments == [Key |-> (self.partition_key :> pk_value)]
    IN IF Len(self.key_schema) = 2
       THEN IF sk_value = None
            THEN Raise(MissingParameter)
            ELSE Return([Key |-> arguments.Key @@ (self.sort_key :> sk_value)])
       ELSE Return(arguments)

Min(a, b) == IF a < b THEN a ELSE b

\* sk_list = None stands for the omitted argument
define_list_key_args(self, pk_list, sk_list) ==
    IF Len(self.key_schema) = 2
    THEN IF sk_list = None
         THEN Raise(TypeError)
         ELSE IF Len(ValueOf(sk_list)) # Len(ValueOf(pk_list))
         THEN Raise(ValueError)
         ELSE Return([RequestItems |-> (self.table :>
                [Keys |-> [i \in 1..Min(Len(ValueOf(pk_list)), Len(ValueOf(sk_list))) |->
                    (self.partition_key :> ValueOf(pk_list)[i]) @@
                    (self.sort_key :> ValueOf(sk_list)[i])]])])
    ELSE Return([RequestItems |-> (self.table :>
                [Keys |-> [i \in 1..Len(ValueOf(pk_list)) |->
                    (self.partition_key :> ValueOf(pk_list)[i])]])])

\* boto3.dynamodb.types.Binary: accepts only bytes / bytearray instances
Binary(value) ==
    IF TypeOf(value) \in {"bytes", "bytearray"}
    THEN Return(<<"Binary", ValueOf(value)>>)
    ELSE Raise(TypeError)

\* Decimal(v) of a float is exact: q quarters are 25 q hundredths
DecimalOfFloat(x) == PyDecimal(ValueOf(x) * 25)

\* float(v) of a Decimal rounds to the nearest float
FloatOfDecimal(x) == PyFloat((2 * ValueOf(x) + 25) \div 50)

\* the read direction, for one value
Dynamo2NativeValue(x) ==
    IF TypeOf(x) = "Binary" THEN Return(PyBytes(ValueOf(x)))
    ELSE IF TypeOf(x) = "Decimal" THEN Return(FloatOfDecimal(x))
    ELSE Return(x)

\* the write direction, for one value
Native2DynamoValue(x) ==
    IF TypeOf(x) \in {"bytes", "bytearray"} THEN Binary(BytesType)
    ELSE IF TypeOf(x) = "float" THEN Return(DecimalOfFloat(x))
    ELSE Return(x)

\* the loop over item.items(): every value is converted, a failure is raised
convert_dtypes(item, type) ==
    LET Conv(x) == IF type = "dynamo2native" THEN Dynamo2NativeValue(x)
                   ELSE Native2DynamoValue(x)
        bad == {a \in DOMAIN item : Conv(item[a]).exc # NoExc}
    IN IF type \notin {"dynamo2native", "native2dynamo"}
       THEN Raise(ValueError)
       ELSE IF bad # {}
       THEN Raise(Conv(item[CHOOSE a \in bad : TRUE]).exc)
       ELSE Return([a \in DOMAIN item |-> Conv(item[a]).val])

(***************************************************************************)
(* infer_types: decode items whose attributes are single-tag wire maps     *)
(* (tag :> payload).                                                       *)
(***************************************************************************)
Digits == <<"0", "1", "2", "3", "4", "5", "6", "7", "8", "9">>
IsDigit(c) == \E d \in 1..10 : Digits[d] = c
DigitVal(c) == (CHOOSE d \in 1..10 : Digits[d] = c) - 1

RECURSIVE ParseNat(_)
ParseNat(s) == IF s = <<>> THEN 0
               ELSE 10 * ParseNat(SubSeq(s, 1, Len(s) - 1)) + DigitVal(s[Len(s)])

\* float(x) of a str: digits, then optionally a point and one or two
\* digits; the result counts quarters (the payloads of the model are
\* multiples of a quarter).  Anything else is not a number.
float_of_str(x) ==
    LET s == ValueOf(x)
        dots == {i \in 1..Len(s) : s[i] = "."}
        dot == IF dots = {} THEN Len(s) + 1 ELSE CHOOSE i \in dots : TRUE
        whole == SubSeq(s, 1, dot - 1)
        frac == SubSeq(s, dot + 1, Len(s))
        hundredths == IF Len(frac) = 1 THEN 10 * ParseNat(frac) ELSE ParseNat(frac)
    IN IF TypeOf(x) # "str" \/ Cardinality(dots) > 1 \/ whole = <<>> \/ Len(frac) > 2
          \/ \E i \in 1..Len(s) : s[i] # "." /\ ~IsDigit(s[i])
       THEN Raise(ValueError)
       ELSE Return(PyFloat(4 * ParseNat(whole) + hundredths \div 25))

\* int(f) of a float truncates
int_of_float(f) == PyInt(ValueOf(f) \div 4)

\* json.loads of a str; the payloads of the model are "[]" and "{}"
json_loads(x) ==
    IF TypeOf(x) # "str" THEN Raise(TypeError)
    ELSE IF ValueOf(x) = <<"[", "]">> THEN Return(PyList(<<>>))
    ELSE IF ValueOf(x) = <<"{", "}">> THEN Return(<<"dict", <<>>>>)
    ELSE Raise(ValueError)

\* bytes(x): a str without an encoding is refused
bytes_of(x) ==
    IF TypeOf(x) \in {"bytes", "bytearray"} THEN Return(PyBytes(ValueOf(x)))
    ELSE Raise(TypeError)

conv_N(x) ==
    LET f == float_of_str(x)
    IN IF f.exc # NoExc THEN f
       ELSE IF ValueOf(f.val) - 4 * ValueOf(int_of_float(f.val)) = 0
       THEN Return(int_of_float(f.val))
       ELSE f

conv_BOOL(x) ==
    IF x \in {PyStr(<<"T", "r", "u", "e">>), PyStr(<<"t", "r", "u", "e">>),
               PyStr(<<"T", "R", "U", "E">>)}
    THEN Return(PyBool(TRUE))
    ELSE Return(PyBool(FALSE))

\* conversions[dtype](value)
conversions(dtype, value) ==
    IF dtype = "N" THEN conv_N(value)
    ELSE IF dtype = "S" THEN Return(value)
    ELSE IF dtype = "BOOL" THEN conv_BOOL(value)
    ELSE IF dtype = "NULL" THEN Return(None)
    ELSE IF dtype = "B" THEN bytes_of(value)
    ELSE IF dtype \in {"L", "M", "NS", "SS"} THEN json_loads(value)
    ELSE Raise(KeyError)

\* one wire map val_dict = (dtype :> value)
InferValue(val_dict) ==
    LET dtype == CHOOSE d \in DOMAIN val_dict : TRUE
    IN conversions(dtype, val_dict[dtype])

\* items is a list of items; the first failure met is raised
infer_types(items) ==
    LET Decoded(item) ==
            LET failed == {a \in DOMAIN item : InferValue(item[a]).exc # NoExc}
            IN IF failed # {}
               THEN Raise(InferValue(item[CHOOSE a \in failed : TRUE]).exc)
               ELSE Return([a \in DOMAIN item |-> InferValue(item[a]).val])
        bad == {i \in 1..Len(items) : Decoded(items[i]).exc # NoExc}
    IN IF bad # {}
       THEN Raise(Decoded(items[CHOOSE i \in bad : \A j \in bad : i <= j]).exc)
       ELSE Return([i \in 1..Len(items) |-> Decoded(items[i]).val])

(***************************************************************************)
(* The external store, as the handlers see it: the table resource          *)
(* (self.table) and the low-level client (self.client).  content is the    *)
(* set of items of one table; a call that the store fails raises           *)
(* botocore's ClientError.                                                 *)
(***************************************************************************)
ResponseMetadata == [HTTPStatusCode |-> HTTP_OK]

KeyNames(tb) == {TableKeySchema(tb)[i].AttributeName : i \in 1..Len(TableKeySchema(tb))}

\* the items of content stored under Key
Matching(content, Key) ==
    {it \in content : \A a \in DOMAIN Key : a \in DOMAIN it /\ it[a] = Key[a]}

Restrict(item, names) == [a \in DOMAIN item \cap names |-> item[a]]

SeqToSet(l) == {l[i] : i \in 1..Len(l)}

RECURSIVE SetToSeq(_)
SetToSeq(S) == IF S = {} THEN <<>>
               ELSE LET x == CHOOSE y \in S : TRUE
                    IN <<x>> \o SetToSeq(S \ {x})

\* self.table.get_item(**arguments)
table_get_item(content, arguments, fault) ==
    LET found == Matching(content, arguments.Key)
        item == CHOOSE it \in found : TRUE
    IN IF fault THEN Raise(ClientError)
       ELSE IF found = {} THEN Return([ResponseMetadata |-> ResponseMetadata])
       ELSE Return([ResponseMetadata |-> ResponseMetadata,
                    Item |-> IF "AttributesToGet" \in DOMAIN arguments
                             THEN Restrict(item, SeqToSet(arguments.AttributesToGet))
                             ELSE item])

\* self.table.put_item(Item = item): the item replaces the one under its key
table_put_item(tb, content, Item) ==
    (content \ Matching(content, Restrict(Item, KeyNames(tb)))) \cup {Item}

\* self.table.delete_item(**arguments)
table_delete_item(content, arguments) ==
    content \ Matching(content, arguments.Key)

\* self.table.scan() and self.table.query(**kwargs): one page of items
table_scan(content) ==
    [ResponseMetadata |-> ResponseMetadata, Items |-> SetToSeq(content),
     Count |-> Cardinality(content)]

table_query(content, kwargs) ==
    LET hit == Matching(content, kwargs.KeyConditionExpression)
    IN [ResponseMetadata |-> ResponseMetadata, Items |-> SetToSeq(hit),
        Count |-> Cardinality(hit)]

\* the elements of keys at the indices in idx, in order
RECURSIVE PickKeys(_, _)
PickKeys(keys, idx) ==
    IF keys = <<>> THEN <<>>
    ELSE PickKeys(SubSeq(keys, 1, Len(keys) - 1), idx)
         \o (IF Len(keys) \in idx THEN <<keys[Len(keys)]>> ELSE <<>>)

\* self.client.batch_get_item(**arguments): the raw items found and the keys
\* left for another round
client_batch_get_item(name, Keys, resp) ==
    [ResponseMetadata |-> ResponseMetadata,
     Responses |-> (name :> resp.items),
     UnprocessedKeys |-> IF resp.unprocessed = {} THEN EmptyDict
                         ELSE (name :> [Keys |-> PickKeys(Keys, resp.unprocessed)])]

\* a ConditionExpression evaluated on the item stored under the key (old is
\* the set holding it, empty when there is none)
ConditionHolds(cond, old) ==
    LET exists == \E it \in old : cond.path \in DOMAIN it
    IN IF cond.fn = "attribute_exists" THEN exists ELSE ~exists

\* self.table.update_item(**arguments): a conditional SET of one attribute.
\* Returns [failed, content, response]; a failed condition is a ClientError.
table_update_item(content, arguments) ==
    LET old == Matching(content, arguments.Key)
        before == IF old = {} THEN arguments.Key ELSE CHOOSE it \in old : TRUE
        name == arguments.UpdateExpression.SET
        value == arguments.ExpressionAttributeValues[arguments.UpdateExpression.to]
        after == [a \in DOMAIN before \cup {name} |->
                    IF a = name THEN value ELSE before[a]]
        rv == arguments.ReturnValues
        meta == [ResponseMetadata |-> ResponseMetadata]
        response ==
            IF rv = "ALL_NEW" THEN meta @@ [Attributes |-> after]
            ELSE IF rv = "UPDATED_NEW" THEN meta @@ [Attributes |-> Restrict(after, {name})]
            ELSE IF rv = "ALL_OLD" /\ old # {} THEN meta @@ [Attributes |-> before]
            ELSE IF rv = "UPDATED_OLD" /\ old # {} /\ name \in DOMAIN before
                 THEN meta @@ [Attributes |-> Restrict(before, {name})]
            ELSE meta
    IN IF ~ConditionHolds(arguments.ConditionExpression, old)
       THEN [failed |-> TRUE, content |-> content, response |-> meta]
       ELSE [failed |-> FALSE, content |-> (content \ old) \cup {after},
             response |-> response]

(***************************************************************************)
(* Inputs of the operations.                                               *)
(***************************************************************************)
KeyVals == {PyInt(n) : n \in 0..MaxKey}
\* sort key arguments: left out, or a value (one that is falsy in Python)
SortVals == {None, PyInt(0)}

Title == "title" :> PyStr(<<"x">>)
Price == "price" :> PyFloat(6)
Poster == "poster" :> PyBytes(<<1, 255>>)
\* an input item that names the key attributes itself
Conflicting == ("movie_id" :> PyInt(9)) @@ ("user_id" :> PyInt(9))
               @@ ("seat" :> PyInt(9)) @@ Title

ItemArgs == {EmptyDict, Price @@ Title, Poster @@ Price @@ Title, Conflicting}

\* the argument left out by the caller
Omitted == [omitted |-> TRUE]

\* what other writers left in the tables before the handles were built
SeedStore ==
    [tb \in Tables |->
        IF tb = "Movies"
        THEN {("movie_id" :> PyInt(0)) @@ Title @@ ("price" :> PyDecimal(110))
              @@ ("poster" :> <<"Binary", <<1, 255>>>>)}
        ELSE {("user_id" :> PyInt(0)) @@ ("seat" :> PyInt(0)) @@ Title
              @@ ("price" :> PyDecimal(110))}]

\* raw (not marshalled) response items of the low-level client
WireTitle == "title" :> ("S" :> PyStr(<<"x">>))
WirePrice == "price" :> ("N" :> PyStr(<<"1", ".", "5">>))
\* an attribute under a tag the decoder does not know
WireOdd == "title" :> ("BS" :> PyStr(<<"x">>))
WireItems == {WireTitle @@ WirePrice, WireOdd}

RECURSIVE SeqsUpTo(_, _)
SeqsUpTo(S, n) ==
    IF n = 0 THEN {<<>>}
    ELSE LET shorter == SeqsUpTo(S, n - 1)
         IN shorter \cup {Append(l, x) : l \in {m \in shorter : Len(m) = n - 1}, x \in S}

\* answers of the low-level client: a fault, or raw items and the indices
\* of the requested keys left unprocessed
NoAnswer == [fault |-> FALSE, items |-> <<>>, unprocessed |-> {}]
Fault == [fault |-> TRUE, items |-> <<>>, unprocessed |-> {}]
Answers ==
    {Fault} \cup {[fault |-> FALSE, items |-> l, unprocessed |-> u] :
                    l \in SeqsUpTo(WireItems, MaxBatch), u \in SUBSET (1..MaxBatch)}

PkLists == {PyList([i \in 1..n |-> PyInt((i - 1) % (MaxKey + 1))]) : n \in 1..MaxBatch}
\* sk_list: left out, as long as pk_list, or one shorter
SkLists(pk_list) ==
    {None} \cup {PyList([i \in 1..n |-> PyInt(0)]) :
                   n \in {Len(ValueOf(pk_list)), Len(ValueOf(pk_list)) - 1}}

\* keyword arguments of update_item
UpdateKwargs(name) ==
    {EmptyDict, [ReturnValues |-> "NONE"], [ReturnValues |-> "ALL_NEW"],
     [ConditionExpression |-> [fn |-> "attribute_not_exists", path |-> name]]}

\* keyword arguments of query_table
Statement == [Statement |-> "SELECT * FROM table"]
KeyCondition(tb, pk) ==
    [KeyConditionExpression |-> (TableKeySchema(tb)[1].AttributeName :> pk)]

NoCalls == <<>>
\* last holds the call just made: its arguments, the store calls it issued
\* and what it returned or raised; NoResult when no call is pending
NoResult == [op |-> "none", tb |-> "", args |-> <<>>, result |-> Return(None),
             calls |-> NoCalls]

Init ==
    /\ handle = [tb \in Tables |-> NewHandle(tb)]
    /\ store = SeedStore
    /\ defaultItem = EmptyDict
    /\ last = NoResult
    /\ nops = 0

\* the callers of the model call one after the other: a call is made once
\* the result of the one before has been taken
CanCall == nops < MaxOps /\ last.op = "none"

caller_takes_result ==
    /\ last.op # "none"
    /\ nops < MaxOps
    /\ last' = NoResult
    /\ UNCHANGED <<handle, store, defaultItem, nops>>

(***************************************************************************)
(* READ OPERATIONS                                                         *)
(***************************************************************************)
get_by_keys(tb, pk_value, sk_value, AttributesToGet, fault) ==
    LET self == handle[tb]
        ka == define_key_args(self, pk_value, sk_value)
        arguments == IF AttributesToGet # <<>>
                     THEN [Key |-> ka.val.Key, AttributesToGet |-> AttributesToGet]
                     ELSE ka.val
        response == table_get_item(store[tb], arguments, fault)
        statusCode == response.val.ResponseMetadata.HTTPStatusCode
        converted == convert_dtypes(response.val.Item, "dynamo2native")
        result == IF ka.exc # NoExc THEN Raise(ka.exc)
                  ELSE IF response.exc # NoExc THEN Raise(response.exc)
                  ELSE IF "Item" \notin DOMAIN response.val THEN Raise(NotFoundError)
                  ELSE IF converted.exc # NoExc THEN Raise(converted.exc)
                  ELSE Return(<<[data |-> converted.val], statusCode>>)
    IN /\ CanCall
       /\ ka.exc # NoExc => ~fault
       /\ last' = [op |-> "get_by_keys", tb |-> tb,
                   args |-> [pk_value |-> pk_value, sk_value |-> sk_value,
                             AttributesToGet |-> AttributesToGet, fault |-> fault],
                   result |-> result,
                   calls |-> IF ka.exc = NoExc
                             THEN <<[api |-> "get_item", args |-> arguments]>>
                             ELSE NoCalls]
       /\ nops' = nops + 1
       /\ UNCHANGED <<handle, store, defaultItem>>

\* batch_get_outcome without the check for an empty result
batch_get_outcome_unchecked(self, response) ==
    LET statusCode == response.ResponseMetadata.HTTPStatusCode
        data == infer_types(response.Responses[self.table])
        payload == IF DOMAIN response.UnprocessedKeys # {}
                   THEN [data |-> data.val,
                         error |-> response.UnprocessedKeys[self.table].Keys]
                   ELSE [data |-> data.val]
    IN IF data.exc # NoExc THEN Raise(data.exc)
       ELSE Return(<<payload, statusCode>>)

\* what batch_get_by_key makes of the store's response
batch_get_outcome(self, response) ==
    LET statusCode == response.ResponseMetadata.HTTPStatusCode
        data == infer_types(response.Responses[self.table])
        payload == IF DOMAIN response.UnprocessedKeys # {}
                   THEN [data |-> data.val,
                         error |-> response.UnprocessedKeys[self.table].Keys]
                   ELSE [data |-> data.val]
    IN IF data.exc # NoExc THEN Raise(data.exc)
       ELSE IF data.val = <<>> THEN Raise(NotFoundError)
       ELSE Return(<<payload, statusCode>>)

\* the store's answer to batch_get_item is an input: resp.fault, or the raw
\* items it returns (resp.items) and the indices of the requested keys it
\* left unprocessed (resp.unprocessed)
batch_get_by_key(tb, pk_list, sk_list, AttributesToGet, resp) ==
    LET self == handle[tb]
        ka == define_list_key_args(self, pk_list, sk_list)
        request == ka.val.RequestItems[self.table]
        arguments == IF AttributesToGet # <<>>
                     THEN [RequestItems |-> (self.table :>
                            [Keys |-> request.Keys, AttributesToGet |-> AttributesToGet])]
                     ELSE ka.val
        response == client_batch_get_item(self.table, request.Keys, resp)
        result == IF ka.exc # NoExc THEN Raise(ka.exc)
                  ELSE IF resp.fault THEN Raise(ClientError)
                  ELSE batch_get_outcome(self, response)
    IN /\ CanCall
       \* no call, no answer; an answer covers no more keys than were asked for
       /\ IF ka.exc # NoExc THEN resp = NoAnswer
          ELSE /\ resp.unprocessed \subseteq 1..Len(request.Keys)
               /\ Len(resp.items) + Cardinality(resp.unprocessed) <= Len(request.Keys)
       /\ last' = [op |-> "batch_get_by_key", tb |-> tb,
                   args |-> [pk_list |-> pk_list, sk_list |-> sk_list,
                             AttributesToGet |-> AttributesToGet, resp |-> resp],
                   result |-> result,
                   calls |-> IF ka.exc = NoExc
                             THEN <<[api |-> "batch_get_item", args |-> arguments]>>
                             ELSE NoCalls]
       /\ nops' = nops + 1
       /\ UNCHANGED <<handle, store, defaultItem>>

\* resp is the store's answer to execute_statement (its raw items, or a
\* fault); the native query is answered from the table's content
query_table(tb, type, kwargs, resp) ==
    LET self == handle[tb]
        bound == type \in {"PartiQL", "native"}
        response == IF type = "PartiQL"
                    THEN [ResponseMetadata |-> ResponseMetadata, Items |-> resp.items]
                    ELSE table_query(store[tb], kwargs)
        statusCode == response.ResponseMetadata.HTTPStatusCode
        result == IF bound /\ resp.fault THEN Raise(ClientError)
                  ELSE IF type = "native" /\ response.Count = 0 THEN Raise(NotFoundError)
                  ELSE IF ~bound THEN Raise(UnboundLocalError)
                  ELSE Return(<<[data |-> response.Items], statusCode>>)
    IN /\ CanCall
       /\ last' = [op |-> "query_table", tb |-> tb,
                   args |-> [type |-> type, kwargs |-> kwargs, resp |-> resp],
                   result |-> result,
                   calls |-> IF type = "PartiQL"
                             THEN <<[api |-> "execute_statement", args |-> kwargs]>>
                             ELSE IF type = "native"
                             THEN <<[api |-> "query", args |-> kwargs]>>
                             ELSE NoCalls]
       /\ nops' = nops + 1
       /\ UNCHANGED <<handle, store, defaultItem>>

scan_table(tb, fault) ==
    LET response == table_scan(store[tb])
        statusCode == response.ResponseMetadata.HTTPStatusCode
        Items == response.Items
    IN /\ CanCall
       \* self.payload = {}
       /\ handle' = [handle EXCEPT ![tb] =
                        [f \in DOMAIN @ \cup {"payload"} |->
                            IF f = "payload" THEN EmptyDict ELSE @[f]]]
       /\ last' = [op |-> "scan_table", tb |-> tb, args |-> [fault |-> fault],
                   result |-> IF fault THEN Raise(ClientError)
                              ELSE Return(<<Items, statusCode>>),
                   calls |-> <<[api |-> "scan", args |-> EmptyDict]>>]
       /\ nops' = nops + 1
       /\ UNCHANGED <<store, defaultItem>>

(***************************************************************************)
(* WRITE OPERATIONS                                                        *)
(***************************************************************************)
\* a merge in which the caller's attributes win over the key's
MergeKeyInputWins(item, Key) ==
    [a \in DOMAIN item \cup DOMAIN Key |-> IF a \in DOMAIN item THEN item[a] ELSE Key[a]]

\* for k, v in key_args['Key'].items(): item[k] = v
MergeKey(item, Key) ==
    [a \in DOMAIN item \cup DOMAIN Key |-> IF a \in DOMAIN Key THEN Key[a] ELSE item[a]]

\* item = Omitted: the caller leaves item out and the default dict is used
add_item(tb, pk_value, sk_value, item, fault) ==
    LET self == handle[tb]
        key_args == define_key_args(self, pk_value, sk_value)
        given == IF item = Omitted THEN defaultItem ELSE item
        merged == MergeKey(given, key_args.val.Key)
        converted == convert_dtypes(merged, "native2dynamo")
        statusCode == ResponseMetadata.HTTPStatusCode
        success == IF statusCode = 200 THEN TRUE ELSE FALSE
        result == IF key_args.exc # NoExc THEN Raise(key_args.exc)
                  ELSE IF converted.exc # NoExc THEN Raise(converted.exc)
                  ELSE IF fault THEN Raise(ClientError)
                  ELSE Return(<<success, statusCode>>)
        called == key_args.exc = NoExc /\ converted.exc = NoExc
    IN /\ CanCall
       /\ ~called => ~fault
       /\ last' = [op |-> "add_item", tb |-> tb,
                   args |-> [pk_value |-> pk_value, sk_value |-> sk_value,
                             item |-> item, fault |-> fault],
                   result |-> result,
                   calls |-> IF called
                             THEN <<[api |-> "put_item", args |-> [Item |-> converted.val]]>>
                             ELSE NoCalls]
       /\ store' = IF called /\ ~fault
                   THEN [store EXCEPT ![tb] = table_put_item(tb, @, converted.val)]
                   ELSE store
       \* the default dict is one object shared by every call that omits item
       /\ defaultItem' = IF item # Omitted \/ key_args.exc # NoExc THEN defaultItem
                         ELSE IF converted.exc # NoExc THEN merged
                         ELSE converted.val
       /\ nops' = nops + 1
       /\ UNCHANGED handle

\* update_arguments whose default condition lets the attribute be created
update_arguments_upsert(Key, attribute_name, attribute_value, kwargs) ==
    [Key |-> Key,
     UpdateExpression |-> [SET |-> attribute_name, to |-> ":r"],
     ExpressionAttributeValues |-> (":r" :> attribute_value),
     ReturnValues |-> IF "ReturnValues" \in DOMAIN kwargs
                      THEN kwargs.ReturnValues ELSE "UPDATED_OLD",
     ConditionExpression |-> IF "ConditionExpression" \in DOMAIN kwargs
                             THEN kwargs.ConditionExpression
                             ELSE [fn |-> "attribute_not_exists", path |-> attribute_name]]

\* the arguments update_item hands to the store
update_arguments(Key, attribute_name, attribute_value, kwargs) ==
    [Key |-> Key,
     UpdateExpression |-> [SET |-> attribute_name, to |-> ":r"],
     ExpressionAttributeValues |-> (":r" :> attribute_value),
     ReturnValues |-> IF "ReturnValues" \in DOMAIN kwargs
                      THEN kwargs.ReturnValues ELSE "UPDATED_OLD",
     ConditionExpression |-> IF "ConditionExpression" \in DOMAIN kwargs
                             THEN kwargs.ConditionExpression
                             ELSE [fn |-> "attribute_exists", path |-> attribute_name]]

update_item(tb, pk_value, sk_value, attribute_name, attribute_value, kwargs, fault) ==
    LET self == handle[tb]
        ka == define_key_args(self, pk_value, sk_value)
        arguments == update_arguments(ka.val.Key, attribute_name, attribute_value, kwargs)
        done == table_update_item(store[tb], arguments)
        response == done.response
        statusCode == response.ResponseMetadata.HTTPStatusCode
        lookup == [UPDATED_OLD |-> "Returned only updated old item",
                   ALL_OLD |-> "Returned all old item",
                   UPDATED_NEW |-> "Returned only updated new item",
                   ALL_NEW |-> "Returned all new item"]
        payload == IF "Attributes" \in DOMAIN response
                   THEN [data |-> response.Attributes,
                         message |-> lookup[arguments.ReturnValues]]
                   ELSE [message |-> "Item was updated"]
        result == IF ka.exc # NoExc THEN Raise(ka.exc)
                  ELSE IF fault \/ done.failed THEN Raise(InvalidParameter)
                  ELSE Return(<<payload, statusCode>>)
    IN /\ CanCall
       /\ ka.exc # NoExc => ~fault
       /\ last' = [op |-> "update_item", tb |-> tb,
                   args |-> [pk_value |-> pk_value, sk_value |-> sk_value,
                             attribute_name |-> attribute_name,
                             attribute_value |-> attribute_value,
                             kwargs |-> kwargs, fault |-> fault],
                   result |-> result,
                   calls |-> IF ka.exc = NoExc
                             THEN <<[api |-> "update_item", args |-> arguments]>>
                             ELSE NoCalls]
       /\ store' = IF ka.exc = NoExc /\ ~fault
                   THEN [store EXCEPT ![tb] = done.content]
                   ELSE store
       /\ nops' = nops + 1
       /\ UNCHANGED <<handle, defaultItem>>

(***************************************************************************)
(* DELETE OPERATIONS                                                       *)
(***************************************************************************)
dump_item(tb, pk_value, sk_value, fault) ==
    LET self == handle[tb]
        arguments == define_key_args(self, pk_value, sk_value)
        statusCode == ResponseMetadata.HTTPStatusCode
        success == IF statusCode = 200 THEN TRUE ELSE FALSE
        result == IF arguments.exc # NoExc THEN Raise(arguments.exc)
                  ELSE IF fault THEN Raise(ClientError)
                  ELSE Return(<<success, statusCode>>)
    IN /\ CanCall
       /\ arguments.exc # NoExc => ~fault
       /\ last' = [op |-> "dump_item", tb |-> tb,
                   args |-> [pk_value |-> pk_value, sk_value |-> sk_value,
                             fault |-> fault],
                   result |-> result,
                   calls |-> IF arguments.exc = NoExc
                             THEN <<[api |-> "delete_item", args |-> arguments.val]>>
                             ELSE NoCalls]
       /\ store' = IF arguments.exc = NoExc /\ ~fault
                   THEN [store EXCEPT ![tb] = table_delete_item(@, arguments.val)]
                   ELSE store
       /\ nops' = nops + 1
       /\ UNCHANGED <<handle, defaultItem>>

(***************************************************************************)
(* The static helpers called on their own.                                 *)
(***************************************************************************)
ConvertArgs == ItemArgs \cup {Poster, Poster @@ Price}
ConvertTypes == {"dynamo2native", "native2dynamo", "wire2native"}

convert_dtypes_call(item, type) ==
    /\ CanCall
    /\ last' = [op |-> "convert_dtypes", tb |-> "",
                args |-> [item |-> item, type |-> type],
                result |-> convert_dtypes(item, type), calls |-> NoCalls]
    /\ nops' = nops + 1
    /\ UNCHANGED <<handle, store, defaultItem>>

\* native -> store -> native: the write conversion, then the read conversion
convert_round_trip(item) ==
    LET written == convert_dtypes(item, "native2dynamo")
    IN /\ CanCall
       /\ last' = [op |-> "convert_round_trip", tb |-> "",
                   args |-> [item |-> item],
                   result |-> IF written.exc # NoExc THEN written
                              ELSE convert_dtypes(written.val, "dynamo2native"),
                   calls |-> NoCalls]
       /\ nops' = nops + 1
       /\ UNCHANGED <<handle, store, defaultItem>>

\* every spelling of true in upper and lower case, and tokens that are not true
Spellings ==
    {<<a, b, c, d>> : a \in {"t", "T"}, b \in {"r", "R"}, c \in {"u", "U"},
                      d \in {"e", "E"}}
Tokens == Spellings \cup {<<"f", "a", "l", "s", "e">>, <<"n", "o">>, <<"t", "r", "u">>}

InferArgs ==
    {<<"sold" :> ("BOOL" :> PyStr(tok))>> : tok \in Tokens}
    \cup {<<"n" :> ("N" :> PyStr(num))>> :
            num \in {<<"3">>, <<"3", ".", "0">>, <<"3", ".", "5">>, <<"x">>}}
    \cup {<<"v" :> (tag :> PyStr(<<"[", "]">>))>> : tag \in {"S", "NULL", "B", "L", "BS"}}
    \cup {<<"v" :> ("B" :> PyBytes(<<1, 255>>))>>}
    \cup SeqsUpTo(WireItems, MaxBatch)

infer_types_call(items) ==
    /\ CanCall
    /\ last' = [op |-> "infer_types", tb |-> "", args |-> [items |-> items],
                result |-> infer_types(items), calls |-> NoCalls]
    /\ nops' = nops + 1
    /\ UNCHANGED <<handle, store, defaultItem>>

\* the calls the callers make, each with arguments from the input sets
call_get_by_keys ==
    CanCall /\ \E tb \in Tables, pk \in KeyVals, sk \in SortVals,
                  atg \in {<<>>, <<"title">>}, fault \in BOOLEAN :
                  get_by_keys(tb, pk, sk, atg, fault)

call_batch_get_by_key ==
    CanCall /\ \E tb \in Tables, pk_list \in PkLists, atg \in {<<>>, <<"title">>},
                  resp \in Answers :
                  \E sk_list \in SkLists(pk_list) :
                     batch_get_by_key(tb, pk_list, sk_list, atg, resp)

call_query_table ==
    CanCall /\ \E tb \in Tables :
        \/ \E resp \in {a \in Answers : a.unprocessed = {}} :
              query_table(tb, "PartiQL", Statement, resp)
        \/ \E pk \in KeyVals, resp \in {NoAnswer, Fault} :
              query_table(tb, "native", KeyCondition(tb, pk), resp)
        \/ query_table(tb, "scan", EmptyDict, NoAnswer)

call_scan_table ==
    CanCall /\ \E tb \in Tables, fault \in BOOLEAN : scan_table(tb, fault)

call_add_item ==
    CanCall /\ \E tb \in Tables, pk \in KeyVals, sk \in SortVals,
                  item \in ItemArgs \cup {Omitted}, fault \in BOOLEAN :
                  add_item(tb, pk, sk, item, fault)

call_update_item ==
    CanCall /\ \E tb \in Tables, pk \in KeyVals, sk \in SortVals,
                  name \in {"title", "rating"}, fault \in BOOLEAN :
                  \E kwargs \in UpdateKwargs(name) :
                     update_item(tb, pk, sk, name, PyStr(<<"y">>), kwargs, fault)

call_dump_item ==
    CanCall /\ \E tb \in Tables, pk \in KeyVals, sk \in SortVals,
                  fault \in BOOLEAN : dump_item(tb, pk, sk, fault)

call_convert_dtypes ==
    CanCall /\ \E item \in ConvertArgs, type \in ConvertTypes :
                  convert_dtypes_call(item, type)

call_convert_round_trip ==
    CanCall /\ \E item \in ConvertArgs : convert_round_trip(item)

call_infer_types ==
    CanCall /\ \E items \in InferArgs : infer_types_call(items)

Next ==
    \/ call_get_by_keys
    \/ call_batch_get_by_key
    \/ call_query_table
    \/ call_scan_table
    \/ call_add_item
    \/ call_update_item
    \/ call_dump_item
    \/ call_convert_dtypes
    \/ call_convert_round_trip
    \/ call_infer_types
    \/ caller_takes_result

Spec == Init /\ [][Next]_vars

(***************************************************************************)
(* Properties.                                                             *)
(***************************************************************************)
Composite(tb) == Len(TableKeySchema(tb)) = 2

\* the key that pk and sk name in table tb
ResolvedKey(tb, pk, sk) ==
    IF Composite(tb)
    THEN (TableKeySchema(tb)[1].AttributeName :> pk)
         @@ (TableKeySchema(tb)[2].AttributeName :> sk)
    ELSE (TableKeySchema(tb)[1].AttributeName :> pk)

\* a stored value and the native value read from it: a boxed blob gives its
\* bytes, an exact decimal the nearest float, anything else itself
ReadsAs(stored, native) ==
    IF TypeOf(stored) = "Binary" THEN native = PyBytes(ValueOf(stored))
    ELSE IF TypeOf(stored) = "Decimal"
    THEN TypeOf(native) = "float" /\ 25 * ValueOf(native) - ValueOf(stored) \in -12..12
    ELSE native = stored

\* C1: on a table with a partition and a sort key, get_by_keys without a
\* sort key value always fails with MissingParameter; a get_by_keys whose
\* key is in the store, answered by the store, returns the item under
\* 'data' with the status code of the store's response.
C1_GetOne ==
    last.op = "get_by_keys" =>
        LET a == last.args
            found == Matching(store[last.tb], ResolvedKey(last.tb, a.pk_value, a.sk_value))
        IN /\ Composite(last.tb) /\ a.sk_value = None
                => last.result.exc = MissingParameter /\ last.calls = NoCalls
           /\ (Composite(last.tb) => a.sk_value # None) /\ found # {} /\ ~a.fault
                => /\ last.result.exc = NoExc
                   /\ last.result.val[2] = ResponseMetadata.HTTPStatusCode
                   /\ DOMAIN last.result.val[1] = {"data"}
                   /\ \E it \in found :
                        LET shown == IF a.AttributesToGet = <<>> THEN it
                                     ELSE Restrict(it, SeqToSet(a.AttributesToGet))
                            data == last.result.val[1].data
                        IN /\ DOMAIN data = DOMAIN shown
                           /\ \A x \in DOMAIN shown : ReadsAs(shown[x], data[x])

\* an item of the composite-key table is read, its decimal price as a float
C1_Witness ==
    /\ last.op = "get_by_keys"
    /\ last.tb = "Tickets"
    /\ last.args.sk_value = PyInt(0)
    /\ last.result.exc = NoExc
    /\ "price" \in DOMAIN last.result.val[1].data
    /\ TypeOf(last.result.val[1].data["price"]) = "float"

\* C2: the item add_item hands to put_item carries the resolved key values
\* under the key attribute names, whatever the caller's item held under
\* those names, and every other attribute of the caller's item is in it.
C2_PutKeysWin ==
    last.op = "add_item" /\ last.calls # NoCalls =>
        LET a == last.args
            written == last.calls[1].args.Item
            ks == TableKeySchema(last.tb)
        IN /\ last.calls[1].api = "put_item"
           /\ ks[1].AttributeName \in DOMAIN written
           /\ written[ks[1].AttributeName] = a.pk_value
           /\ Composite(last.tb) =>
                /\ ks[2].AttributeName \in DOMAIN written
                /\ written[ks[2].AttributeName] = a.sk_value
           /\ a.item # Omitted =>
                \A x \in DOMAIN a.item \ KeyNames(last.tb) : x \in DOMAIN written

\* an item naming the key attributes itself is written to the composite table
C2_Witness ==
    /\ last.op = "add_item"
    /\ last.tb = "Tickets"
    /\ last.args.item = Conflicting
    /\ last.calls # NoCalls
    /\ last.result.exc = NoExc

\* the keys of a batch request that the store's answer left unprocessed
LeftKeys == PickKeys(last.calls[1].args.RequestItems[last.tb].Keys,
                     last.args.resp.unprocessed)

\* the call reached the store and the store answered
Answered == last.calls # NoCalls /\ ~last.args.resp.fault

\* C3: batch_get_by_key fails with NotFoundError exactly when the store
\* answers with zero items; a result returned for an answer with unprocessed
\* keys has them, and exactly them, under 'error'; a result returned for an
\* answer without unprocessed keys has no 'error'.
C3_BatchGet ==
    last.op = "batch_get_by_key" =>
        /\ last.result.exc = NotFoundError
             <=> (Answered /\ last.args.resp.items = <<>>)
        /\ Answered /\ last.args.resp.items # <<>>
              /\ (\A i \in 1..Len(last.args.resp.items) :
                     last.args.resp.items[i] = WireTitle @@ WirePrice)
             => last.result.exc = NoExc
        /\ last.result.exc = NoExc =>
             IF last.args.resp.unprocessed # {}
             THEN /\ "error" \in DOMAIN last.result.val[1]
                  /\ last.result.val[1].error = LeftKeys
             ELSE "error" \notin DOMAIN last.result.val[1]

\* an answer with an item and an unprocessed key gives a result with 'error'
C3_Witness ==
    /\ last.op = "batch_get_by_key"
    /\ last.result.exc = NoExc
    /\ "error" \in DOMAIN last.result.val[1]
    /\ Len(last.result.val[1].error) = 1
    /\ Len(last.result.val[1].data) = 1

\* every raw item of the store's answer is one the decoder knows
Decodable ==
    \A i \in 1..Len(last.args.resp.items) :
        last.args.resp.items[i] = WireTitle @@ WirePrice

\* C4: whenever the store's answer to a batch get reports unprocessed keys,
\* the caller gets a result with those keys under 'error', also when the
\* answer holds no item at all.
C4_UnprocessedSurfaced ==
    last.op = "batch_get_by_key" /\ Answered /\ Decodable
        /\ last.args.resp.unprocessed # {}
    => /\ last.result.exc = NoExc
       /\ "error" \in DOMAIN last.result.val[1]
       /\ last.result.val[1].error = LeftKeys

Taxonomy == {NotImplementedError, NotFoundError, MissingParameter,
             InvalidParameter, InvalidMethodError, ServerError}

\* C5: a call of any operation or helper returns, or fails with one of the
\* six kinds of Exceptions.py, carrying that kind's status code.
C5_ClosedTaxonomy ==
    last.result.exc = NoExc \/ last.result.exc \in Taxonomy

\* C6: query_table with a type that is neither 'PartiQL' nor 'native' fails
\* with InvalidMethodError (405) and calls the store not at all; in native
\* mode zero matching items give NotFoundError; in PartiQL mode the
\* arguments go to the store as given and its items come back under 'data'.
C6_QueryModes ==
    last.op = "query_table" =>
        LET a == last.args
        IN /\ a.type \notin {"PartiQL", "native"}
                => last.result.exc = InvalidMethodError /\ last.calls = NoCalls
           /\ a.type = "native" /\ ~a.resp.fault
                /\ Matching(store[last.tb], a.kwargs.KeyConditionExpression) = {}
                => last.result.exc = NotFoundError
           /\ a.type = "PartiQL" /\ ~a.resp.fault
                => /\ last.calls = <<[api |-> "execute_statement", args |-> a.kwargs]>>
                   /\ last.result.exc = NoExc
                   /\ last.result.val[1] = [data |-> a.resp.items]

\* C7: update_item without a ConditionExpression or ReturnValues of the
\* caller issues one store update, conditioned on the attribute existing and
\* returning UPDATED_OLD; with the attribute absent from the stored item the
\* call fails with InvalidParameter and the table is unchanged; with it
\* present (and the store answering) the attribute takes the new value and
\* the old one comes back under 'data' with the UPDATED_OLD message.
C7_UpdateDefault ==
    [][ (last'.op = "update_item" /\ last'.args.kwargs = EmptyDict
         /\ (Composite(last'.tb) => last'.args.sk_value # None)) =>
        LET a == last'.args
            tb == last'.tb
            key == ResolvedKey(tb, a.pk_value, a.sk_value)
            old == Matching(store[tb], key)
            present == \E it \in old : a.attribute_name \in DOMAIN it
        IN /\ Len(last'.calls) = 1
           /\ last'.calls[1].api = "update_item"
           /\ last'.calls[1].args.Key = key
           /\ last'.calls[1].args.ConditionExpression
                = [fn |-> "attribute_exists", path |-> a.attribute_name]
           /\ last'.calls[1].args.ReturnValues = "UPDATED_OLD"
           /\ ~present => last'.result.exc = InvalidParameter /\ store' = store
           /\ present /\ ~a.fault =>
                /\ last'.result.exc = NoExc
                /\ \E it \in old :
                     /\ store'[tb] = (store[tb] \ {it})
                            \cup {[x \in DOMAIN it |-> IF x = a.attribute_name
                                                       THEN a.attribute_value ELSE it[x]]}
                     /\ last'.result.val[1] =
                            [data |-> (a.attribute_name :> it[a.attribute_name]),
                             message |-> "Returned only updated old item"]
                /\ \A other \in Tables \ {tb} : store'[other] = store[other]
      ]_vars

\* a default update of an attribute the stored item has
C7_Witness ==
    /\ last.op = "update_item"
    /\ last.args.kwargs = EmptyDict
    /\ last.result.exc = NoExc
    /\ "data" \in DOMAIN last.result.val[1]
    /\ last.result.val[1].data = ("title" :> PyStr(<<"x">>))

\* C8: a native item with a byte blob and a float, converted for the store
\* and back, is the item it was: the blob byte for byte, the float equal.
C8_RoundTrip ==
    last.op = "convert_round_trip"
        /\ (\E x \in DOMAIN last.args.item : TypeOf(last.args.item[x]) = "bytes")
        /\ (\E x \in DOMAIN last.args.item : TypeOf(last.args.item[x]) = "float")
    => last.result.exc = NoExc /\ last.result.val = last.args.item

LowerChar(c) ==
    IF c = "T" THEN "t" ELSE IF c = "R" THEN "r" ELSE IF c = "U" THEN "u"
    ELSE IF c = "E" THEN "e" ELSE c

Lower(tok) == [i \in 1..Len(tok) |-> LowerChar(tok[i])]

\* C9: infer_types decodes a BOOL attribute to true exactly when its
\* payload, compared without regard to case, is the token "true".
C9_BoolDecoding ==
    last.op = "infer_types" /\ Len(last.args.items) = 1
        /\ DOMAIN last.args.items[1] = {"sold"}
    => LET tok == ValueOf(last.args.items[1]["sold"]["BOOL"])
       IN /\ last.result.exc = NoExc
          /\ last.result.val[1]["sold"] = PyBool(Lower(tok) = <<"t", "r", "u", "e">>)

\* C10: the fields of every handle are those __init__ set, with the values
\* it set, whatever operations have run.
C10_HandleReadOnly ==
    handle = [tb \in Tables |-> NewHandle(tb)]

\* C11: the item an add_item call hands to put_item is made of that call's
\* own arguments alone: its attributes are those of the caller's item (none
\* when item is left out) and the key attributes of the handle's table, the
\* key attributes hold the resolved key, and nothing of an earlier call is
\* in it.
C11_NoCrossCallState ==
    last.op = "add_item" /\ last.calls # NoCalls =>
        LET a == last.args
            own == IF a.item = Omitted THEN EmptyDict ELSE a.item
            key == ResolvedKey(last.tb, a.pk_value, a.sk_value)
            written == last.calls[1].args.Item
        IN /\ DOMAIN written = DOMAIN own \cup KeyNames(last.tb)
           /\ \A x \in KeyNames(last.tb) : written[x] = key[x]

====
